---- MODULE Spec2Model ----
(***************************************************************************)
(* Interactive double pendulum (aeronauty/Pendulum-eigenvalue-demo).       *)
(*                                                                         *)
(* Two variants of the interactive App share one stateRef:                 *)
(*   "basic" : src/unnamed/part_000 (App.tsx, drawFrame loop only)         *)
(*   "plot"  : src/unnamed/part_001 (drawFrame loop, the trace-recording   *)
(*             animate loop and updateState)                               *)
(*                                                                         *)
(* JavaScript numbers are modelled as fixed-point integers with Scale      *)
(* units per 1.0 (angles in milliradians, lengths in millipixels).  The    *)
(* finite range is [-MaxNum, MaxNum]; a result beyond it is +/-Infinity,   *)
(* and NaN is a value of its own, with the IEEE-754 rules of propagation.  *)
(***************************************************************************)
EXTENDS Integers, Sequences, FiniteSets

(***************************************************************************)
(* Numbers                                                                 *)
(*                                                                         *)
(* The arithmetic is defined as functions (AddOf, MulOf, ...) so that an   *)
(* operand is evaluated once, as a JavaScript operand is; the operators    *)
(* Add, Mul, ... apply them.                                               *)
(***************************************************************************)
Scale == 1000
MaxNum == 2000000000
PInf == MaxNum + 1
NInf == 0 - (MaxNum + 1)
NaN == MaxNum + 2

IsNaN(a) == a = NaN
IsInf(a) == a = PInf \/ a = NInf
IsFinite(a) == a >= 0 - MaxNum /\ a <= MaxNum

AbsInt(a) == IF a < 0 THEN 0 - a ELSE a
SignOf(a) == IF a < 0 THEN 0 - 1 ELSE 1
InfOfSign(s) == IF s < 0 THEN NInf ELSE PInf

\* the fixed-point image of an integer literal or slider value
Num(n) == n * Scale

Neg(a) == IF IsNaN(a) THEN NaN ELSE 0 - a

AddOf[a \in Int, b \in Int] ==
  IF IsNaN(a) \/ IsNaN(b) THEN NaN
  ELSE IF IsInf(a) THEN (IF IsInf(b) /\ b # a THEN NaN ELSE a)
  ELSE IF IsInf(b) THEN b
  ELSE IF a > 0 /\ b > MaxNum - a THEN PInf
  ELSE IF a < 0 /\ b < (0 - MaxNum) - a THEN NInf
  ELSE a + b

Add(a, b) == AddOf[a, b]

Sub(a, b) == Add(a, Neg(b))

\* product of two non-negative finite magnitudes, a*b/Scale, without
\* leaving the 32-bit range: a = a1*Scale + a0, b = b1*Scale + b0
MulMag(a, b) ==
  LET a1 == a \div Scale
      a0 == a % Scale
      b1 == b \div Scale
      b0 == b % Scale
  IN IF a1 > 0 /\ b1 > (MaxNum \div Scale) \div a1 THEN PInf
     ELSE Add(Add(a1 * b1 * Scale, a1 * b0), Add(a0 * b1, (a0 * b0) \div Scale))

MulOf[a \in Int, b \in Int] ==
  IF IsNaN(a) \/ IsNaN(b) THEN NaN
  ELSE IF IsInf(a) \/ IsInf(b)
       THEN (IF a = 0 \/ b = 0 THEN NaN ELSE InfOfSign(SignOf(a) * SignOf(b)))
  ELSE LET m == MulMag(AbsInt(a), AbsInt(b))
       IN IF SignOf(a) * SignOf(b) < 0 THEN Neg(m) ELSE m

Mul(a, b) == MulOf[a, b]

\* quotient of two finite magnitudes, a*Scale/b with b > 0
DivMag(a, b) ==
  LET q == a \div b
      r == a % b
      frac == IF r <= MaxNum \div Scale THEN (r * Scale) \div b
              ELSE r \div (b \div Scale)
  IN IF q > MaxNum \div Scale THEN PInf ELSE Add(q * Scale, frac)

DivOf[a \in Int, b \in Int] ==
  IF IsNaN(a) \/ IsNaN(b) THEN NaN
  ELSE IF IsInf(a) THEN (IF IsInf(b) THEN NaN
                         ELSE InfOfSign(SignOf(a) * SignOf(b)))
  ELSE IF IsInf(b) THEN 0
  ELSE IF b = 0 THEN (IF a = 0 THEN NaN ELSE InfOfSign(SignOf(a)))
  ELSE LET m == DivMag(AbsInt(a), AbsInt(b))
       IN IF SignOf(a) * SignOf(b) < 0 THEN Neg(m) ELSE m

Div(a, b) == DivOf[a, b]

\* JavaScript %: the remainder has the sign of the dividend
RemOf[a \in Int, b \in Int] ==
  IF IsNaN(a) \/ IsNaN(b) \/ IsInf(a) \/ b = 0 THEN NaN
  ELSE IF IsInf(b) THEN a
  ELSE SignOf(a) * (AbsInt(a) % AbsInt(b))

Rem(a, b) == RemOf[a, b]

\* comparisons: every comparison with NaN is false
Lt(a, b) == ~IsNaN(a) /\ ~IsNaN(b) /\ a < b
Gt(a, b) == ~IsNaN(a) /\ ~IsNaN(b) /\ a > b

MathAbs(a) == IF IsNaN(a) THEN NaN ELSE AbsInt(a)
MathMin(a, b) == IF IsNaN(a) \/ IsNaN(b) THEN NaN ELSE IF a < b THEN a ELSE b
MathMax(a, b) == IF IsNaN(a) \/ IsNaN(b) THEN NaN ELSE IF a > b THEN a ELSE b

RECURSIVE IsqrtIter(_, _)
IsqrtIter(n, x) ==
  LET y == (x + n \div x) \div 2
  IN IF y >= x THEN x ELSE IsqrtIter(n, y)

\* floor of the square root of a natural number (Newton's iteration)
Isqrt(n) == IF n = 0 THEN 0 ELSE IsqrtIter(n, n)

MathSqrt(a) ==
  IF IsNaN(a) \/ a < 0 THEN NaN
  ELSE IF a = PInf THEN PInf
  ELSE IF a <= MaxNum \div Scale THEN Isqrt(a * Scale)
  ELSE Isqrt(a \div Scale) * Scale

\* sqrt(a^2 + b^2), rescaled so that the squares stay in range
HypotMag(a, b, k) == Isqrt((a \div k) * (a \div k) + (b \div k) * (b \div k)) * k

MathHypot(a, b) ==
  IF IsInf(a) \/ IsInf(b) THEN PInf
  ELSE IF IsNaN(a) \/ IsNaN(b) THEN NaN
  ELSE LET x == AbsInt(a)
           y == AbsInt(b)
           big == IF x > y THEN x ELSE y
       IN IF big <= 32767 THEN HypotMag(x, y, 1)
          ELSE IF big <= 3276700 THEN HypotMag(x, y, 100)
          ELSE HypotMag(x, y, 100000)

(***************************************************************************)
(* Trigonometry (milliradians)                                             *)
(***************************************************************************)
PI == 3142
HalfPi == PI \div 2
QuarterPi == PI \div 4

\* sine on [0, PI]: Bhaskara's rational approximation
\*   16 x (PI - x) / (5 PI^2 - 4 x (PI - x))
SinHalfTurn(x) ==
  LET p == x * (PI - x)
  IN (16 * p) \div ((5 * PI * PI - 4 * p) \div Scale)

SinFinite(a) ==
  LET r == a % (2 * PI)
  IN IF r <= PI THEN SinHalfTurn(r) ELSE 0 - SinHalfTurn(r - PI)

SinOf[a \in Int] == IF ~IsFinite(a) THEN NaN ELSE SinFinite(a)

MathSin(a) == SinOf[a]

CosOf[a \in Int] ==
  IF ~IsFinite(a) THEN NaN ELSE SinFinite((a % (2 * PI)) + HalfPi)

MathCos(a) == CosOf[a]

\* arctangent on [0, 1]:  z (PI/4 + 0.273 (1 - z))
AtanUnit(z) == (z * (QuarterPi + (273 * (Scale - z)) \div Scale)) \div Scale

\* Math.atan2(a, b): the angle of the point (b, a) from the positive b axis
MathAtan2(a, b) ==
  IF IsNaN(a) \/ IsNaN(b) THEN NaN
  ELSE LET x == AbsInt(a)
           y == AbsInt(b)
           base == IF x = 0 THEN 0
                   ELSE IF x <= y THEN AtanUnit(DivMag(x, y))
                   ELSE HalfPi - AtanUnit(DivMag(y, x))
           half == IF b < 0 THEN PI - base ELSE base
       IN IF a < 0 THEN 0 - half ELSE half

\* Math.acos(c) = atan2(sqrt(1 - c^2), c) on [-1, 1], NaN outside
MathAcos(c) ==
  IF IsNaN(c) \/ c > Scale \/ c < 0 - Scale THEN NaN
  ELSE MathAtan2(Isqrt(Scale * Scale - c * c), c)

(***************************************************************************)
(* Program state                                                           *)
(***************************************************************************)
VARIABLES
  app,          \* which App is mounted: "basic" (part_000) or "plot" (part_001)
  state,        \* stateRef.current: [theta1, theta2, dtheta1, dtheta2]
  settings,     \* the settings state, mirrored by settingsRef.current
  animSettings, \* the settings captured by the closure of the animate effect
  conceptualEnabled, \* the conceptual-properties checkbox
  activeValues, \* [damping, k1, k2] kept while the conceptual properties are off
  remembered,   \* history: the conceptual values last supplied by the user
  plotOptions,  \* [xAxis, yAxis]
  dragTarget,   \* dragTargetRef.current: "m1", "m2" or "none" (null)
  drawLoop,     \* a drawFrame callback is pending in requestAnimationFrame
  warned,       \* console.warn("Simulation exploded ...") has been called
  canvas,       \* the bob positions of the last draw calls, or NoDraw
  clock,        \* the time of the last animation frame, in ms
  timeRef,      \* timeRef.current
  lastTimeRef,  \* lastTimeRef.current
  trace,        \* tracePointsRef.current
  arrived,      \* history: every sample pushed since the trace was cleared
  ticks,        \* history: animate callbacks run since the trace was cleared
  lastOp,       \* history: the handler that ran last
  wrote,        \* history: who wrote stateRef in the last handler
  used,         \* history: the settings the last engine step read
  ptr,          \* history: the pointer (simulation frame) of the last mouse event
  frames,       \* history: number of frame callbacks run
  events        \* history: number of user events handled

vars == <<app, state, settings, animSettings, conceptualEnabled, activeValues,
          remembered, plotOptions, dragTarget, drawLoop,
          warned, canvas, clock, timeRef, lastTimeRef, trace, arrived, ticks, lastOp,
          wrote, used, ptr, frames, events>>

\* exploration bounds
MaxFrames == 2
MaxEvents == 3
FrameMs == 16

NoDraw == [x1 |-> 0, y1 |-> 0, x2 |-> 0, y2 |-> 0, drawn |-> FALSE]

InitialState ==
  [theta1 |-> Div(PI, Num(2)), theta2 |-> Div(PI, Num(4)),
   dtheta1 |-> 0, dtheta2 |-> 0]

InitialSettings ==
  [speed |-> Num(1), m1 |-> Num(100), m2 |-> Num(50), L1 |-> Num(100),
   L2 |-> Num(50), g |-> Div(Num(981), Num(100)),
   damping |-> Div(Num(1), Num(100)), k1 |-> 0, k2 |-> 0]

CanvasWidth == 600
PivotY == 100
DivergeLimit == 10000
TraceCap == 5000

(***************************************************************************)
(* Forward kinematics and hit test                                         *)
(***************************************************************************)
getBobPositions(st, s) ==
  LET x1 == Mul(s.L1, MathSin(st.theta1))
      y1 == Mul(s.L1, MathCos(st.theta1))
      x2 == Add(x1, Mul(s.L2, MathSin(st.theta2)))
      y2 == Add(y1, Mul(s.L2, MathCos(st.theta2)))
  IN [x1 |-> x1, y1 |-> y1, x2 |-> x2, y2 |-> y2]

\* e = <<offsetX, offsetY>> in canvas pixels
screenToSim(e) ==
  [x |-> Sub(Num(e[1]), Div(Num(CanvasWidth), Num(2))),
   y |-> Sub(Num(e[2]), Num(PivotY))]

PickRadius(m) == Mul(MathSqrt(m), Div(Num(1), Num(2)))

HitTestFirstM1(st, s, p) ==
  LET pos == getBobPositions(st, s)
      dist1 == MathHypot(Sub(p.x, pos.x1), Sub(p.y, pos.y1))
      dist2 == MathHypot(Sub(p.x, pos.x2), Sub(p.y, pos.y2))
      r1 == PickRadius(s.m1)
      r2 == PickRadius(s.m2)
  IN IF Lt(dist1, Add(r1, Num(5))) THEN "m1"
     ELSE IF Lt(dist2, Add(r2, Num(5))) THEN "m2"
     ELSE "none"

HitTest(st, s, p) ==
  LET pos == getBobPositions(st, s)
      dist1 == MathHypot(Sub(p.x, pos.x1), Sub(p.y, pos.y1))
      dist2 == MathHypot(Sub(p.x, pos.x2), Sub(p.y, pos.y2))
      r1 == PickRadius(s.m1)
      r2 == PickRadius(s.m2)
  IN IF Lt(dist2, Add(r2, Num(5))) THEN "m2"
     ELSE IF Lt(dist1, Add(r1, Num(5))) THEN "m1"
     ELSE "none"

(***************************************************************************)
(* Drag resolver (canvas.onmousemove)                                      *)
(***************************************************************************)
DragBob1Swapped(st, p) ==
  [st EXCEPT !.theta1 = MathAtan2(p.y, p.x), !.dtheta1 = 0]

DragBob1(st, p) ==
  [st EXCEPT !.theta1 = MathAtan2(p.x, p.y), !.dtheta1 = 0]

\* d, clamped to the reachable distances [|L1 - L2|, L1 + L2]
clampedD(s, p) ==
  MathMin(Add(s.L1, s.L2),
          MathMax(MathAbs(Sub(s.L1, s.L2)), MathHypot(p.x, p.y)))

\* law of cosines for the angle at the pivot, given the clamped distance
cosA(s, cd) ==
  Div(Sub(Add(Mul(s.L1, s.L1), Mul(cd, cd)), Mul(s.L2, s.L2)),
      Mul(Mul(Num(2), s.L1), cd))

\* law of cosines for the angle at bob 1
cosB(s, cd) ==
  Div(Sub(Add(Mul(s.L1, s.L1), Mul(s.L2, s.L2)), Mul(cd, cd)),
      Mul(Mul(Num(2), s.L1), s.L2))

\* Math.min(1, Math.max(-1, c)): the argument handed to Math.acos
acosArg(c) == MathMin(Num(1), MathMax(Num(0 - 1), c))

DragBob2(st, s, p) ==
  LET cd == clampedD(s, p)
      angleToTarget == MathAtan2(p.x, p.y)
      A == MathAcos(acosArg(cosA(s, cd)))
      theta1 == Sub(angleToTarget, A)
      B == MathAcos(acosArg(cosB(s, cd)))
      theta2 == Sub(PI, B)
  IN [theta1 |-> theta1, theta2 |-> Add(theta1, theta2),
      dtheta1 |-> 0, dtheta2 |-> 0]

resolveDrag(target, st, s, p) ==
  IF target = "m1" THEN DragBob1(st, p) ELSE DragBob2(st, s, p)

(***************************************************************************)
(* Dynamics engine                                                         *)
(***************************************************************************)
\* ((theta + PI) % (2 PI)) - PI
wrapAngle(theta) == Sub(Rem(Add(theta, PI), Mul(Num(2), PI)), PI)

fixedDt(a) == IF a = "basic" THEN Div(Num(1), Num(20)) ELSE Div(Num(1), Num(10))

\* denom = 2 m1 + m2 - m2 cos(2 delta)
engineDenom(s, delta) ==
  Sub(Add(Mul(Num(2), s.m1), s.m2), Mul(s.m2, MathCos(Mul(Num(2), delta))))

\* numerator of ddtheta1 without the stiffness term
engineNum1(st, s, delta) ==
  Sub(Sub(Mul(Mul(Neg(s.g), Add(Mul(Num(2), s.m1), s.m2)), MathSin(st.theta1)),
          Mul(Mul(s.m2, s.g), MathSin(Sub(st.theta1, Mul(Num(2), st.theta2))))),
      Mul(Mul(Mul(Num(2), MathSin(delta)), s.m2),
          Add(Mul(Mul(st.dtheta2, st.dtheta2), s.L2),
              Mul(Mul(Mul(st.dtheta1, st.dtheta1), s.L1), MathCos(delta)))))

\* numerator of ddtheta2 without the stiffness term
engineNum2(st, s, delta) ==
  Mul(Mul(Num(2), MathSin(delta)),
      Add(Add(Mul(Mul(Mul(st.dtheta1, st.dtheta1), s.L1), Add(s.m1, s.m2)),
              Mul(Mul(s.g, Add(s.m1, s.m2)), MathCos(st.theta1))),
          Mul(Mul(Mul(Mul(st.dtheta2, st.dtheta2), s.L2), s.m2), MathCos(delta))))

\* only the "plot" App has k1 and k2
engineAccel1(a, st, s, delta, denom) ==
  IF a = "basic" THEN Div(engineNum1(st, s, delta), Mul(s.L1, denom))
  ELSE Div(Sub(engineNum1(st, s, delta), Mul(s.k1, st.theta1)), Mul(s.L1, denom))

engineAccel2(a, st, s, delta, denom) ==
  IF a = "basic" THEN Div(engineNum2(st, s, delta), Mul(s.L2, denom))
  ELSE Div(Sub(engineNum2(st, s, delta), Mul(s.k2, Sub(st.theta2, st.theta1))),
           Mul(s.L2, denom))

\* velocity from the acceleration, damped
engineVelocity(dtheta, ddtheta, damping, dt) ==
  Add(dtheta, Mul(Sub(ddtheta, Mul(damping, dtheta)), dt))

\* angle from the updated velocity, then wrapped
engineAngle(theta, newDtheta, dt) == wrapAngle(Add(theta, Mul(newDtheta, dt)))

engineIntegrate(st, newDtheta1, newDtheta2, dt) ==
  [theta1 |-> engineAngle(st.theta1, newDtheta1, dt),
   theta2 |-> engineAngle(st.theta2, newDtheta2, dt),
   dtheta1 |-> newDtheta1, dtheta2 |-> newDtheta2]

engineAdvance(a, st, s, dt, delta, denom) ==
  engineIntegrate(st,
    engineVelocity(st.dtheta1, engineAccel1(a, st, s, delta, denom), s.damping, dt),
    engineVelocity(st.dtheta2, engineAccel2(a, st, s, delta, denom), s.damping, dt),
    dt)

\* the integration step inside drawFrame
engineStep(a, st, s, dt) ==
  engineAdvance(a, st, s, dt, Sub(st.theta1, st.theta2),
                engineDenom(s, Sub(st.theta1, st.theta2)))

\* den = (m1 + m2) L1 - m2 L1 cos(theta1 - theta2)^2
updateDen(s, c12) ==
  Sub(Mul(Add(s.m1, s.m2), s.L1), Mul(Mul(Mul(s.m2, s.L1), c12), c12))

updateAccel1(st, s, s12, c12, den) ==
  Div(Sub(Sub(Sub(Sub(Mul(Mul(Neg(s.g), Add(s.m1, s.m2)), MathSin(st.theta1)),
                      Mul(Mul(s.m2, s.g),
                          MathSin(Sub(st.theta1, Mul(Num(2), st.theta2))))),
                  Mul(Mul(Mul(Num(2), s12), s.m2),
                      Add(Mul(Mul(st.dtheta2, st.dtheta2), s.L2),
                          Mul(Mul(Mul(st.dtheta1, st.dtheta1), s.L1), c12)))),
              Mul(s.k1, st.theta1)),
          Mul(s.damping, st.dtheta1)),
      Mul(s.L1, den))

updateAccel2(st, s, s12, c12, den) ==
  Div(Sub(Sub(Mul(Mul(Num(2), s12),
                  Add(Add(Mul(Mul(Mul(st.dtheta1, st.dtheta1), s.L1),
                              Add(s.m1, s.m2)),
                          Mul(Mul(s.g, Add(s.m1, s.m2)), MathCos(st.theta1))),
                      Mul(Mul(Mul(Mul(st.dtheta2, st.dtheta2), s.L2), s.m2), c12))),
              Mul(s.k2, st.theta2)),
          Mul(s.damping, st.dtheta2)),
      Mul(s.L2, den))

updateIntegrate(st, newDtheta1, newDtheta2, dt) ==
  [theta1 |-> Add(st.theta1, Mul(newDtheta1, dt)),
   theta2 |-> Add(st.theta2, Mul(newDtheta2, dt)),
   dtheta1 |-> newDtheta1, dtheta2 |-> newDtheta2]

updateAdvance(st, dt, s, s12, c12, den) ==
  updateIntegrate(st,
    Add(st.dtheta1, Mul(updateAccel1(st, s, s12, c12, den), dt)),
    Add(st.dtheta2, Mul(updateAccel2(st, s, s12, c12, den), dt)),
    dt)

\* updateState, the step function of the animate loop
updateState(st, dt, s) ==
  updateAdvance(st, dt, s, MathSin(Sub(st.theta1, st.theta2)),
                MathCos(Sub(st.theta1, st.theta2)),
                updateDen(s, MathCos(Sub(st.theta1, st.theta2))))

\* simulateDoublePendulum (pendulum-linear-demo): one iteration of its loop
\* on the loop variables theta1, theta2, dtheta1, dtheta2; no damping, no
\* stiffness, no wrap
simulateAccel1(st, p, delta, denom) ==
  Div(engineNum1(st, p, delta), Mul(p.L1, denom))

simulateAccel2(st, p, delta, denom) ==
  Div(engineNum2(st, p, delta), Mul(p.L2, denom))

simulateIntegrate(st, newDtheta1, newDtheta2, dt) ==
  [theta1 |-> Add(st.theta1, Mul(newDtheta1, dt)),
   theta2 |-> Add(st.theta2, Mul(newDtheta2, dt)),
   dtheta1 |-> newDtheta1, dtheta2 |-> newDtheta2]

simulateAdvance(st, p, dt, delta, denom) ==
  simulateIntegrate(st,
    Add(st.dtheta1, Mul(simulateAccel1(st, p, delta, denom), dt)),
    Add(st.dtheta2, Mul(simulateAccel2(st, p, delta, denom), dt)),
    dt)

simulateStep(st, p, dt) ==
  simulateAdvance(st, p, dt, Sub(st.theta1, st.theta2),
                  engineDenom(p, Sub(st.theta1, st.theta2)))

\* the positions one iteration pushes to x1, y1, x2, y2
simulatePoint(st, p) ==
  [x1 |-> Mul(p.L1, MathSin(st.theta1)),
   y1 |-> Mul(Neg(p.L1), MathCos(st.theta1)),
   x2 |-> Add(Mul(p.L1, MathSin(st.theta1)), Mul(p.L2, MathSin(st.theta2))),
   y2 |-> Sub(Mul(Neg(p.L1), MathCos(st.theta1)),
              Mul(p.L2, MathCos(st.theta2)))]

\* getPlotValue(param, state), with the settings its closure captured
getPlotValue(param, st, s, time) ==
  LET x1 == Mul(s.L1, MathSin(st.theta1))
      y1 == Mul(Neg(s.L1), MathCos(st.theta1))
      x2 == Add(x1, Mul(s.L2, MathSin(st.theta2)))
      y2 == Sub(y1, Mul(s.L2, MathCos(st.theta2)))
  IN CASE param = "time" -> time
       [] param = "x1" -> x1
       [] param = "y1" -> y1
       [] param = "x2" -> x2
       [] param = "y2" -> y2
       [] param = "theta1" -> st.theta1
       [] param = "theta2" -> st.theta2
       [] OTHER -> 0

\* push, then shift when the length exceeds the cap
pushSampleNoShift(tr, point) == Append(tr, point)

pushSample(tr, point) ==
  LET pushed == Append(tr, point)
  IN IF Len(pushed) > TraceCap THEN Tail(pushed) ELSE pushed

(***************************************************************************)
(* Inputs explored                                                         *)
(***************************************************************************)
\* <<offsetX, offsetY>> of the mouse events: on bob 1 and on bob 2 of the
\* initial pose, on the pivot, above the pivot, between two close bobs
Pointers == {<<400, 100>>, <<435, 135>>, <<300, 100>>, <<290, 0>>, <<405, 105>>}

\* slider changes: <<key, value>>, inside the sliders' ranges
SliderMoves == {<<"L2", Num(10)>>, <<"L2", Num(100)>>, <<"damping", Num(0 - 1)>>}

\* selections of the plot axes
PlotChoices == {<<"xAxis", "x2">>, <<"yAxis", "y2">>}

(***************************************************************************)
(* Initial state: the App just mounted                                     *)
(***************************************************************************)
\* the conceptual properties of a settings record
ConceptualOf(s) == [damping |-> s.damping, k1 |-> s.k1, k2 |-> s.k2]

ConceptualKeys == {"damping", "k1", "k2"}

Mounted(a) ==
  /\ app = a
  /\ state = InitialState
  /\ settings = InitialSettings
  /\ animSettings = InitialSettings
  /\ conceptualEnabled = TRUE
  /\ activeValues = ConceptualOf(settings)
  /\ remembered = ConceptualOf(settings)
  /\ plotOptions = [xAxis |-> "time", yAxis |-> "theta2"]
  /\ dragTarget = "none"
  /\ drawLoop = TRUE
  /\ warned = FALSE
  /\ canvas = NoDraw
  /\ clock = FrameMs
  /\ timeRef = 0
  /\ lastTimeRef = 0
  /\ trace = <<>>
  /\ arrived = <<>>
  /\ ticks = 0
  /\ lastOp = "mount"
  /\ wrote = "none"
  /\ used = settings
  /\ ptr = [x |-> 0, y |-> 0]
  /\ frames = 0
  /\ events = 0

Init == \E a \in {"basic", "plot"} : Mounted(a)

plotVars == <<plotOptions, clock, timeRef, lastTimeRef, trace, arrived, ticks>>
drawVars == <<drawLoop, warned, canvas>>
cfgVars == <<app, settings, animSettings, conceptualEnabled, activeValues,
            remembered>>

(***************************************************************************)
(* Mouse handlers of the pendulum canvas                                   *)
(***************************************************************************)
onmousedown(e) ==
  /\ dragTarget' = HitTest(state, settings, screenToSim(e))
  /\ ptr' = screenToSim(e)
  /\ lastOp' = "mousedown"
  /\ wrote' = "none"
  /\ UNCHANGED <<state, used, cfgVars, plotVars, drawVars>>

onmousemove(e) ==
  /\ IF dragTarget = "none"
     THEN state' = state /\ wrote' = "none"
     ELSE /\ state' = resolveDrag(dragTarget, state, settings, screenToSim(e))
          /\ wrote' = "resolver"
  /\ ptr' = screenToSim(e)
  /\ lastOp' = "mousemove"
  /\ UNCHANGED <<dragTarget, used, cfgVars, plotVars, drawVars>>

\* a pointer-up that forgets to clear the drag target
onmouseupKeepsTarget ==
  /\ dragTarget' = dragTarget
  /\ lastOp' = "mouseup"
  /\ wrote' = "none"
  /\ UNCHANGED <<state, ptr, used, cfgVars, plotVars, drawVars>>

onmouseup ==
  /\ dragTarget' = "none"
  /\ lastOp' = "mouseup"
  /\ wrote' = "none"
  /\ UNCHANGED <<state, ptr, used, cfgVars, plotVars, drawVars>>

(***************************************************************************)
(* Frame callbacks                                                         *)
(***************************************************************************)
exploded(pos) ==
  \/ Gt(MathAbs(pos.x1), Num(DivergeLimit))
  \/ Gt(MathAbs(pos.x2), Num(DivergeLimit))

\* the tail of drawFrame: divergence check, then the draw calls
drawTail(pos) ==
  IF exploded(pos)
  THEN warned' = TRUE /\ drawLoop' = FALSE /\ canvas' = canvas
  ELSE /\ canvas' = [x1 |-> pos.x1, y1 |-> pos.y1, x2 |-> pos.x2,
                     y2 |-> pos.y2, drawn |-> TRUE]
       /\ drawLoop' = TRUE
       /\ warned' = warned

\* whether drawFrame takes the engine step
engineRuns(target) == target = "none"

drawFrame ==
  /\ drawLoop
  /\ \E st \in {IF engineRuns(dragTarget)
                THEN engineStep(app, state, settings,
                                Mul(fixedDt(app), settings.speed))
                ELSE state} :
       /\ state' = st
       /\ \E pos \in {getBobPositions(st, settings)} : drawTail(pos)
  /\ wrote' = IF engineRuns(dragTarget) THEN "engine" ELSE "none"
  /\ used' = IF engineRuns(dragTarget) THEN settings ELSE used
  /\ lastOp' = "drawFrame"
  /\ UNCHANGED <<dragTarget, ptr, cfgVars, plotVars>>

\* the sample animate records for the new state
tracePoint(st, s, options, time) ==
  [x |-> getPlotValue(options.xAxis, st, s, time),
   y |-> getPlotValue(options.yAxis, st, s, time),
   timestamp |-> time]

\* the animate loop of the "plot" App: one requestAnimationFrame callback
animate ==
  /\ app = "plot"
  /\ clock' = clock + FrameMs
  /\ ticks' = ticks + 1
  /\ lastOp' = "animate"
  /\ IF lastTimeRef = 0
     THEN /\ lastTimeRef' = Num(clock + FrameMs)
          /\ wrote' = "none"
          /\ UNCHANGED <<state, used, timeRef, trace, arrived>>
     ELSE \E dt \in {Mul(Div(Sub(Num(clock + FrameMs), lastTimeRef), Num(1000)),
                         animSettings.speed)} :
          \E newState \in {updateState(state, dt, animSettings)} :
          \E point \in {tracePoint(newState, animSettings, plotOptions,
                                   Add(timeRef, dt))} :
             /\ lastTimeRef' = Num(clock + FrameMs)
             /\ timeRef' = Add(timeRef, dt)
             /\ state' = newState
             /\ wrote' = "engine"
             /\ used' = animSettings
             /\ trace' = pushSample(trace, point)
             /\ arrived' = Append(arrived, point)
  /\ UNCHANGED <<dragTarget, ptr, cfgVars, plotOptions, drawVars>>

(***************************************************************************)
(* Buttons, sliders and selects                                            *)
(***************************************************************************)
resetAngles ==
  /\ state' = InitialState
  /\ lastOp' = "reset"
  /\ wrote' = "reset"
  /\ UNCHANGED <<dragTarget, ptr, used, cfgVars, plotVars, drawVars>>

\* the "plot" App also records a conceptual property in activeValues
updateSetting(key, value) ==
  /\ settings[key] # value
  /\ settings' = [settings EXCEPT ![key] = value]
  /\ activeValues' = IF app = "plot" /\ key \in ConceptualKeys
                     THEN [activeValues EXCEPT ![key] = value]
                     ELSE activeValues
  /\ remembered' = IF key \in ConceptualKeys
                   THEN [remembered EXCEPT ![key] = value]
                   ELSE remembered
  /\ lastOp' = "updateSetting"
  /\ wrote' = "none"
  /\ UNCHANGED <<state, dragTarget, ptr, used, app, animSettings,
                 conceptualEnabled, plotVars, drawVars>>

\* a toggle that stores the values after zeroing them
toggleConceptualForgets(enabled) ==
  /\ app = "plot"
  /\ enabled # conceptualEnabled
  /\ conceptualEnabled' = enabled
  /\ IF enabled
     THEN /\ settings' = [settings EXCEPT !.damping = activeValues.damping,
                                          !.k1 = activeValues.k1,
                                          !.k2 = activeValues.k2]
          /\ activeValues' = activeValues
          /\ remembered' = remembered
     ELSE /\ activeValues' = [damping |-> 0, k1 |-> 0, k2 |-> 0]
          /\ remembered' = ConceptualOf(settings)
          /\ settings' = [settings EXCEPT !.damping = 0, !.k1 = 0, !.k2 = 0]
  /\ lastOp' = "toggleConceptual"
  /\ wrote' = "none"
  /\ UNCHANGED <<state, dragTarget, ptr, used, app, animSettings, plotVars,
                 drawVars>>

\* the checkbox of the conceptual properties; a checkbox alternates
toggleConceptual(enabled) ==
  /\ app = "plot"
  /\ enabled # conceptualEnabled
  /\ conceptualEnabled' = enabled
  /\ IF enabled
     THEN /\ settings' = [settings EXCEPT !.damping = activeValues.damping,
                                          !.k1 = activeValues.k1,
                                          !.k2 = activeValues.k2]
          /\ activeValues' = activeValues
          /\ remembered' = remembered
     ELSE /\ activeValues' = ConceptualOf(settings)
          /\ remembered' = ConceptualOf(settings)
          /\ settings' = [settings EXCEPT !.damping = 0, !.k1 = 0, !.k2 = 0]
  /\ lastOp' = "toggleConceptual"
  /\ wrote' = "none"
  /\ UNCHANGED <<state, dragTarget, ptr, used, app, animSettings, plotVars,
                 drawVars>>

\* a new plot axis re-runs the animate effect: the trace and the clocks are
\* cleared and the new animate closure captures the settings of this render
setPlotOptions(axis, value) ==
  /\ app = "plot"
  /\ plotOptions[axis] # value
  /\ plotOptions' = [plotOptions EXCEPT ![axis] = value]
  /\ trace' = <<>>
  /\ arrived' = <<>>
  /\ ticks' = 0
  /\ timeRef' = 0
  /\ lastTimeRef' = 0
  /\ animSettings' = settings
  /\ lastOp' = "plotOptions"
  /\ wrote' = "none"
  /\ UNCHANGED <<state, dragTarget, ptr, used, app, settings,
                 conceptualEnabled, activeValues, remembered, clock, drawVars>>

(***************************************************************************)
(* Specifications                                                          *)
(***************************************************************************)
UserTick == events < MaxEvents /\ events' = events + 1 /\ frames' = frames

FrameTick == frames < MaxFrames /\ frames' = frames + 1 /\ events' = events

MouseDown(e) == UserTick /\ onmousedown(e)

MouseMove(e) == UserTick /\ onmousemove(e)

MouseUp == UserTick /\ onmouseup

ResetClick == UserTick /\ resetAngles

SliderChange(m) == UserTick /\ updateSetting(m[1], m[2])

PlotSelect(c) == UserTick /\ setPlotOptions(c[1], c[2])

DrawFrame == FrameTick /\ drawFrame

Animate == FrameTick /\ animate

Next ==
  \/ \E e \in Pointers : MouseDown(e)
  \/ \E e \in Pointers : MouseMove(e)
  \/ MouseUp
  \/ ResetClick
  \/ \E m \in SliderMoves : SliderChange(m)
  \/ \E c \in PlotChoices : PlotSelect(c)
  \/ DrawFrame
  \/ Animate

Spec == Init /\ [][Next]_vars

(***************************************************************************)
(* Claims checked under Spec                                               *)
(***************************************************************************)
\* C1: while a drag target is set, no frame callback (drawFrame or animate)
\* applies an engine step to the angular state.
C1_DragExcludesEngine ==
  [][dragTarget # "none" => wrote' # "engine"]_vars

InWrapInterval(theta) == IsFinite(theta) /\ theta > 0 - PI /\ theta <= PI

\* C2: after every integration step of the engine, theta1 and theta2 lie in
\* the half-open interval (-PI, PI].
C2_AngleWrapInvariant ==
  wrote = "engine" =>
    InWrapInterval(state.theta1) /\ InWrapInterval(state.theta2)

\* C3: after a mousemove while a drag target (bob 1 or bob 2) is set, both
\* angular velocities are zero.
C3_DragKillsVelocities ==
  [][(lastOp' = "mousemove" /\ dragTarget # "none")
       => (state'.dtheta1 = 0 /\ state'.dtheta2 = 0)]_vars

\* C4: dragging bob 1 sets theta1 to atan2(pointer.x, pointer.y), x before
\* y, and leaves theta2 unchanged.
C4_DragBob1SetsTheta1 ==
  [][(lastOp' = "mousemove" /\ dragTarget = "m1")
       => (/\ state'.theta1 = MathAtan2(ptr'.x, ptr'.y)
           /\ state'.theta2 = state.theta2)]_vars

\* a bob 1 drag has moved theta1 away from its previous value
C4_Witness ==
  /\ lastOp = "mousemove" /\ dragTarget = "m1" /\ wrote = "resolver"
  /\ state.theta1 = MathAtan2(ptr.x, ptr.y)
  /\ state.theta1 # InitialState.theta1

WithinPick(px, py, bx, by, m) ==
  Lt(MathHypot(Sub(px, bx), Sub(py, by)), Add(Mul(MathSqrt(m), Div(Num(1), Num(2))), Num(5)))

Bob1Picked ==
  WithinPick(ptr.x, ptr.y, Mul(settings.L1, MathSin(state.theta1)),
             Mul(settings.L1, MathCos(state.theta1)), settings.m1)

Bob2Picked ==
  WithinPick(ptr.x, ptr.y,
             Add(Mul(settings.L1, MathSin(state.theta1)),
                 Mul(settings.L2, MathSin(state.theta2))),
             Add(Mul(settings.L1, MathCos(state.theta1)),
                 Mul(settings.L2, MathCos(state.theta2))),
             settings.m2)

\* C5: on pointer-down the drag target is bob 2 if the pointer is within
\* r2 + 5 of bob 2, else bob 1 if it is within r1 + 5 of bob 1, else none;
\* when both bobs are within their pick radius bob 2 is selected.
C5_HitTestPriority ==
  lastOp = "mousedown" =>
    /\ Bob2Picked => dragTarget = "m2"
    /\ (~Bob2Picked /\ Bob1Picked) => dragTarget = "m1"
    /\ (~Bob2Picked /\ ~Bob1Picked) => dragTarget = "none"

\* a pointer-down with both bobs inside their pick radius
C5_Witness ==
  lastOp = "mousedown" /\ Bob1Picked /\ Bob2Picked /\ dragTarget = "m2"

\* C7: a non-finite bob position is never passed to the draw calls.
C7_NoNonFiniteDrawn ==
  canvas.drawn =>
    /\ IsFinite(canvas.x1) /\ IsFinite(canvas.y1)
    /\ IsFinite(canvas.x2) /\ IsFinite(canvas.y2)

\* The divergence branch of drawFrame is never taken: with the lengths in
\* the sliders' range a finite angle gives |x| <= L1 + L2 and a non-finite
\* one gives NaN, which compares false.  No reachable state is frozen, so
\* the freeze of C6 and the recovery of C9 have no case to be checked on.
NeverExploded == ~warned /\ drawLoop

(***************************************************************************)
(* SpecDrag: the pendulum runs free for some frames, then the user drags   *)
(***************************************************************************)
MaxWarmFrames == 24

WarmFrame ==
  /\ events = 0
  /\ frames < MaxWarmFrames
  /\ frames' = frames + 1
  /\ events' = events
  /\ drawFrame

NextDrag ==
  \/ WarmFrame
  \/ \E e \in Pointers : MouseDown(e)
  \/ \E e \in Pointers : MouseMove(e)
  \/ MouseUp

SpecDrag == Init /\ [][NextDrag]_vars

(***************************************************************************)
(* SpecDiverge: the free-running engine with the parameters of the         *)
(* divergence test (g = 9.81, m1 = m2 = 1, L1 = L2 = 1, damping = -5,      *)
(* dt = 0.1), from a set of starting poses                                 *)
(***************************************************************************)
DivergeSettings ==
  [speed |-> Num(1), m1 |-> Num(1), m2 |-> Num(1), L1 |-> Num(1),
   L2 |-> Num(1), g |-> Div(Num(981), Num(100)), damping |-> Num(0 - 5),
   k1 |-> 0, k2 |-> 0]

DivergeAngles == {0 - HalfPi, 0 - QuarterPi, QuarterPi, HalfPi}

InitDiverge ==
  /\ app = "plot"
  /\ \E t1 \in DivergeAngles : \E t2 \in DivergeAngles :
       state = [theta1 |-> t1, theta2 |-> t2, dtheta1 |-> 0, dtheta2 |-> 0]
  /\ settings = DivergeSettings
  /\ animSettings = DivergeSettings
  /\ conceptualEnabled = TRUE
  /\ activeValues = ConceptualOf(settings)
  /\ remembered = ConceptualOf(settings)
  /\ plotOptions = [xAxis |-> "time", yAxis |-> "theta2"]
  /\ dragTarget = "none"
  /\ drawLoop = TRUE
  /\ warned = FALSE
  /\ canvas = NoDraw
  /\ clock = FrameMs
  /\ timeRef = 0
  /\ lastTimeRef = 0
  /\ trace = <<>>
  /\ arrived = <<>>
  /\ ticks = 0
  /\ lastOp = "mount"
  /\ wrote = "none"
  /\ used = settings
  /\ ptr = [x |-> 0, y |-> 0]
  /\ frames = 0
  /\ events = 0

\* the frame number is kept modulo FrameWrap: a run of frames is endless
FrameWrap == 2

DivergeFrame ==
  /\ drawFrame
  /\ frames' = (frames + 1) % FrameWrap
  /\ events' = events

\* requestAnimationFrame runs every callback that stays scheduled
SpecDiverge == InitDiverge /\ [][DivergeFrame]_vars /\ WF_vars(DivergeFrame)

\* C8: with the parameters of the divergence test, after finitely many steps
\* the check |x1| > 10000 or |x2| > 10000 is true and the engine reports
\* divergence.
C8_DivergenceReported == <>warned

(***************************************************************************)
(* SpecTrace: the animate loop of the "plot" App fills the trace buffer    *)
(* past its cap; the plot axis is changed, which clears the buffer, early  *)
(* in a run or once the buffer has overflowed                              *)
(***************************************************************************)
ExtraTicks == 3

ClearWindow == 1

TraceTick ==
  /\ ticks < TraceCap + ExtraTicks
  /\ animate
  /\ UNCHANGED <<frames, events>>

TraceClear ==
  /\ ticks <= ClearWindow \/ ticks = TraceCap + ExtraTicks
  /\ setPlotOptions("xAxis", "x2")
  /\ UNCHANGED <<frames, events>>

NextTrace == TraceTick \/ TraceClear

\* what one animate tick adds to timeRef: (timestamp - lastTimeRef) / 1000
\* times the speed
TickDt == Mul(Div(Num(FrameMs), Num(1000)), InitialSettings.speed)

\* the n-th sample of a run that plots theta2 against the time
FilledSample(n) ==
  [x |-> n * TickDt, y |-> InitialState.theta2, timestamp |-> n * TickDt]

FilledTicks == TraceCap - 2

\* The state of the "plot" App after FilledTicks animate ticks from the
\* mount, the buffer two ticks short of its cap (FilledReached checks that
\* the run from the mount arrives in exactly this state).
Filled ==
  /\ app = "plot"
  /\ state = InitialState
  /\ settings = InitialSettings
  /\ animSettings = InitialSettings
  /\ conceptualEnabled = TRUE
  /\ activeValues = ConceptualOf(settings)
  /\ remembered = ConceptualOf(settings)
  /\ plotOptions = [xAxis |-> "time", yAxis |-> "theta2"]
  /\ dragTarget = "none"
  /\ drawLoop = TRUE
  /\ warned = FALSE
  /\ canvas = NoDraw
  /\ clock = FrameMs * (FilledTicks + 1)
  /\ timeRef = (FilledTicks - 1) * TickDt
  /\ lastTimeRef = Num(FrameMs * (FilledTicks + 1))
  /\ trace = [n \in 1..(FilledTicks - 1) |-> FilledSample(n)]
  /\ arrived = [n \in 1..(FilledTicks - 1) |-> FilledSample(n)]
  /\ ticks = FilledTicks
  /\ lastOp = "animate"
  /\ wrote = "engine"
  /\ used = InitialSettings
  /\ ptr = [x |-> 0, y |-> 0]
  /\ frames = 0
  /\ events = 0

InitTrace == Mounted("plot") \/ Filled

SpecTrace == InitTrace /\ [][NextTrace]_vars

\* the run from the mount alone
SpecFill == Mounted("plot") /\ [][NextTrace]_vars

\* after FilledTicks animate ticks from the mount, the plot axis unchanged,
\* the App is in Filled
FilledReached ==
  (ticks = FilledTicks /\ plotOptions.xAxis = "time") => Filled

\* the last n elements of a sequence, in order
LastN(seq, n) ==
  IF Len(seq) <= n THEN seq ELSE SubSeq(seq, Len(seq) - n + 1, Len(seq))

\* C10: the trace buffer is bounded and FIFO: it holds at most 5000 samples
\* and always equals the last min(n, 5000) samples pushed since it was last
\* cleared, in arrival order; every animate tick appends exactly one sample,
\* except the first tick after the mount or a clear, which only records the
\* frame time and appends none.
C10_TraceBoundedFifo ==
  /\ Len(trace) <= TraceCap
  /\ trace = LastN(arrived, TraceCap)
  /\ Len(arrived) = IF ticks = 0 THEN 0 ELSE ticks - 1

\* the buffer is full and its oldest samples have been evicted
C10_Witness ==
  /\ lastOp = "animate"
  /\ Len(arrived) > TraceCap
  /\ Len(trace) = TraceCap
  /\ trace[1] = arrived[Len(arrived) - TraceCap + 1]
  /\ trace[TraceCap] = arrived[Len(arrived)]

\* C10 as stated: every animate tick since the last clear has appended
\* exactly one sample.
C10_EveryTickAppends ==
  /\ Len(trace) <= TraceCap
  /\ trace = LastN(arrived, TraceCap)
  /\ Len(arrived) = ticks

(***************************************************************************)
(* Claims on the parameters, checked under Spec                            *)
(***************************************************************************)
\* C11: every engine step executed in a frame uses the parameter values
\* most recently supplied before that frame: right after an engine step the
\* settings it read are the current settings.
C11_ParamsReadFresh == wrote = "engine" => used = settings

(***************************************************************************)
(* Claims on the bob 2 drag                                                *)
(***************************************************************************)
\* a mousemove has just run the bob 2 branch of the resolver
Bob2Dragged == lastOp = "mousemove" /\ dragTarget = "m2"

InUnitInterval(c) == IsFinite(c) /\ c >= 0 - Scale /\ c <= Scale

\* C12: in a bob 2 drag the values passed to acos for the angles A and B are
\* defined and lie in [-1, 1], and the resolved theta1 and theta2 are
\* finite, for every pointer (the pivot included) and every pair of lengths
\* (equal lengths included).
C12_AcosArgsInDomain ==
  Bob2Dragged =>
    /\ InUnitInterval(acosArg(cosA(settings, clampedD(settings, ptr))))
    /\ InUnitInterval(acosArg(cosB(settings, clampedD(settings, ptr))))
    /\ IsFinite(state.theta1) /\ IsFinite(state.theta2)

\* the clamp of the distance d to [lo, hi]
ClampOf(d, lo, hi) == IF d > hi THEN hi ELSE IF d < lo THEN lo ELSE d

\* the distance used for the inverse kinematics is d clamped to
\* [|L1 - L2|, L1 + L2]
ClampIsExact ==
  clampedD(settings, ptr) =
    ClampOf(MathHypot(ptr.x, ptr.y), AbsInt(settings.L1 - settings.L2),
            settings.L1 + settings.L2)

\* distance of bob 2 from the pivot by forward kinematics
Bob2Distance ==
  MathHypot(Add(Mul(settings.L1, MathSin(state.theta1)),
                Mul(settings.L2, MathSin(state.theta2))),
            Add(Mul(settings.L1, MathCos(state.theta1)),
                Mul(settings.L2, MathCos(state.theta2))))

\* slack for the error of the approximated sine and cosine, in units of
\* 1/Scale pixel
ReachTol == 500

Bob2WithinReach ==
  /\ Bob2Distance >= AbsInt(settings.L1 - settings.L2) - ReachTol
  /\ Bob2Distance <= settings.L1 + settings.L2 + ReachTol

\* when the resolved angles are finite, bob 2 is within reach
FiniteWithinReach ==
  (Bob2Dragged /\ IsFinite(Bob2Distance)) => (ClampIsExact /\ Bob2WithinReach)

\* C13: in a bob 2 drag the distance used for the inverse kinematics is d
\* when |L1 - L2| <= d <= L1 + L2, L1 + L2 when d is larger and |L1 - L2|
\* when d is smaller, and the bob 2 position implied by the resolved angles
\* is at a distance within [|L1 - L2|, L1 + L2] from the pivot.
C13_ReachabilityClamp ==
  Bob2Dragged =>
    /\ ClampIsExact
    /\ IsFinite(Bob2Distance)
    /\ Bob2WithinReach

(***************************************************************************)
(* SpecStep: the step functions of the repository as functions of their    *)
(* inputs.  The App ("basic", "plot") or the loop of                       *)
(* simulateDoublePendulum ("linear") starts from a pose and velocities     *)
(* drawn from StepAngles and StepVelocities, with a damping drawn from     *)
(* the slider's range, and runs StepFrames steps.                          *)
(***************************************************************************)
StepFrames == 3

StepAngles == {0 - QuarterPi, QuarterPi, HalfPi}

StepVelocities == {Num(0 - 1), 0, Num(1)}

StepDampings == {Num(0 - 1), Div(Num(1), Num(100)), Num(1)}

\* the parameters the linear demo passes to simulateDoublePendulum
LinearParams ==
  [speed |-> Num(1), m1 |-> Num(100), m2 |-> Num(50), L1 |-> Num(1),
   L2 |-> Div(Num(1), Num(2)), g |-> Div(Num(981), Num(100)), damping |-> 0,
   k1 |-> 0, k2 |-> 0]

SimulateDt == Div(Num(1), Num(100))

InitStep ==
  /\ app \in {"basic", "plot", "linear"}
  /\ \E t1 \in StepAngles : \E t2 \in StepAngles :
     \E v1 \in StepVelocities : \E v2 \in StepVelocities :
       state = [theta1 |-> t1, theta2 |-> t2, dtheta1 |-> v1, dtheta2 |-> v2]
  /\ IF app = "linear"
     THEN settings = LinearParams
     ELSE \E d \in StepDampings : settings = [InitialSettings EXCEPT !.damping = d]
  /\ animSettings = settings
  /\ conceptualEnabled = TRUE
  /\ activeValues = ConceptualOf(settings)
  /\ remembered = ConceptualOf(settings)
  /\ plotOptions = [xAxis |-> "time", yAxis |-> "theta2"]
  /\ dragTarget = "none"
  /\ drawLoop = TRUE
  /\ warned = FALSE
  /\ canvas = NoDraw
  /\ clock = FrameMs
  /\ timeRef = 0
  /\ lastTimeRef = 0
  /\ trace = <<>>
  /\ arrived = <<>>
  /\ ticks = 0
  /\ lastOp = "mount"
  /\ wrote = "none"
  /\ used = settings
  /\ ptr = [x |-> 0, y |-> 0]
  /\ frames = 0
  /\ events = 0

\* one iteration of the loop of simulateDoublePendulum
simulateLoop ==
  /\ app = "linear"
  /\ \E st \in {simulateStep(state, settings, SimulateDt)} :
       /\ state' = st
       /\ trace' = Append(trace, simulatePoint(st, settings))
  /\ lastOp' = "simulate"
  /\ wrote' = "engine"
  /\ used' = settings
  /\ UNCHANGED <<dragTarget, ptr, cfgVars, drawVars, plotOptions, clock,
                 timeRef, lastTimeRef, arrived, ticks>>

StepTick == frames < StepFrames /\ frames' = frames + 1 /\ events' = events

StepDraw == StepTick /\ app # "linear" /\ drawFrame

StepAnimate == StepTick /\ animate

StepSimulate == StepTick /\ simulateLoop

NextStep == StepDraw \/ StepAnimate \/ StepSimulate

SpecStep == InitStep /\ [][NextStep]_vars

\* the semi-implicit Euler update: the velocity from the acceleration and
\* the damping, then the angle from the updated velocity
EulerVelocity(dtheta, ddtheta, damping, dt) ==
  Add(dtheta, Mul(Sub(ddtheta, Mul(damping, dtheta)), dt))

EulerAngle(theta, newDtheta, dt) == Add(theta, Mul(newDtheta, dt))

\* the step of drawFrame has the form, with the angle stored wrapped
DrawIsEuler ==
  LET delta == Sub(state.theta1, state.theta2)
      denom == engineDenom(settings, delta)
      dt == Mul(fixedDt(app), settings.speed)
  IN /\ state'.dtheta1 =
          EulerVelocity(state.dtheta1,
                        engineAccel1(app, state, settings, delta, denom),
                        settings.damping, dt)
     /\ state'.dtheta2 =
          EulerVelocity(state.dtheta2,
                        engineAccel2(app, state, settings, delta, denom),
                        settings.damping, dt)
     /\ state'.theta1 = wrapAngle(EulerAngle(state.theta1, state'.dtheta1, dt))
     /\ state'.theta2 = wrapAngle(EulerAngle(state.theta2, state'.dtheta2, dt))

\* the settings of the animate closure with the damping taken out: the
\* accelerations of updateState from the pre-step state alone
Undamped == [animSettings EXCEPT !.damping = 0]

\* the step of animate (updateState) has the form
AnimateIsEuler ==
  LET s12 == MathSin(Sub(state.theta1, state.theta2))
      c12 == MathCos(Sub(state.theta1, state.theta2))
      den == updateDen(animSettings, c12)
      dt == Mul(Div(Sub(lastTimeRef', lastTimeRef), Num(1000)),
                animSettings.speed)
  IN /\ state'.dtheta1 =
          EulerVelocity(state.dtheta1, updateAccel1(state, Undamped, s12, c12, den),
                        animSettings.damping, dt)
     /\ state'.dtheta2 =
          EulerVelocity(state.dtheta2, updateAccel2(state, Undamped, s12, c12, den),
                        animSettings.damping, dt)
     /\ state'.theta1 = EulerAngle(state.theta1, state'.dtheta1, dt)
     /\ state'.theta2 = EulerAngle(state.theta2, state'.dtheta2, dt)

\* the step of simulateDoublePendulum has the form, with damping = 0
SimulateIsEuler ==
  LET delta == Sub(state.theta1, state.theta2)
      denom == engineDenom(settings, delta)
  IN /\ state'.dtheta1 =
          EulerVelocity(state.dtheta1,
                        simulateAccel1(state, settings, delta, denom), 0,
                        SimulateDt)
     /\ state'.dtheta2 =
          EulerVelocity(state.dtheta2,
                        simulateAccel2(state, settings, delta, denom), 0,
                        SimulateDt)
     /\ state'.theta1 = EulerAngle(state.theta1, state'.dtheta1, SimulateDt)
     /\ state'.theta2 = EulerAngle(state.theta2, state'.dtheta2, SimulateDt)

\* the steps of drawFrame and of simulateDoublePendulum are semi-implicit
\* Euler updates
DrawAndSimulateAreEuler ==
  [][/\ (wrote' = "engine" /\ lastOp' = "drawFrame") => DrawIsEuler
     /\ (wrote' = "engine" /\ lastOp' = "simulate") => SimulateIsEuler]_vars

\* C14: every engine step is the semi-implicit Euler update
\* dtheta' = dtheta + (ddtheta - damping * dtheta) * dt, the damping applied
\* to the velocity directly, then theta' = theta + dtheta' * dt with the
\* updated velocity; for the steps of both drawFrame loops, of updateState
\* and of simulateDoublePendulum (damping = 0).
C14_SemiImplicitEuler ==
  [][/\ (wrote' = "engine" /\ lastOp' = "drawFrame") => DrawIsEuler
     /\ (wrote' = "engine" /\ lastOp' = "animate") => AnimateIsEuler
     /\ (wrote' = "engine" /\ lastOp' = "simulate") => SimulateIsEuler]_vars

(***************************************************************************)
(* Claims on the drag target, checked under Spec                           *)
(***************************************************************************)
\* C15: the drag target changes only on pointer-down, where the hit test
\* sets it, and on pointer-up, which always clears it to none; a
\* pointer-move while the drag target is none leaves theta1, theta2,
\* dtheta1 and dtheta2 unchanged; a frame callback never changes the drag
\* target.
C15_DragTargetLifecycle ==
  [][/\ dragTarget' # dragTarget => lastOp' \in {"mousedown", "mouseup"}
     /\ lastOp' = "mousedown" => dragTarget' = HitTest(state, settings, ptr')
     /\ lastOp' = "mouseup" => dragTarget' = "none"
     /\ (lastOp' = "mousemove" /\ dragTarget = "none") => state' = state
     /\ lastOp' \in {"drawFrame", "animate"} => dragTarget' = dragTarget]_vars

\* a whole drag of bob 1 has ended: pointer-down on the bob, a pointer-move
\* that turned it, pointer-up
C15_Witness ==
  /\ lastOp = "mouseup" /\ dragTarget = "none"
  /\ events = 3 /\ frames = 0
  /\ state.theta1 # InitialState.theta1
  /\ state.theta1 = MathAtan2(ptr.x, ptr.y)

(***************************************************************************)
(* SpecConceptual: the controls of the "plot" App that write the settings: *)
(* sliders, the zero buttons and the conceptual-properties checkbox        *)
(***************************************************************************)
ConceptualEvents == 4

\* slider changes: <<key, value>>, inside the sliders' ranges
ConceptualMoves ==
  {<<"damping", Num(0 - 1)>>, <<"k1", Num(5)>>, <<"k2", Num(0 - 3)>>,
   <<"L1", Num(50)>>, <<"speed", Num(2)>>}

ConceptualTick ==
  events < ConceptualEvents /\ events' = events + 1 /\ frames' = frames

ConceptualSlider(m) == ConceptualTick /\ updateSetting(m[1], m[2])

ZeroClick(key) == ConceptualTick /\ updateSetting(key, 0)

ConceptualToggle(enabled) == ConceptualTick /\ toggleConceptual(enabled)

NextConceptual ==
  \/ \E m \in ConceptualMoves : ConceptualSlider(m)
  \/ \E key \in ConceptualKeys : ZeroClick(key)
  \/ \E enabled \in BOOLEAN : ConceptualToggle(enabled)

SpecConceptual == Mounted("plot") /\ [][NextConceptual]_vars

\* the settings the toggle must not touch
PhysicalOf(s) ==
  [speed |-> s.speed, m1 |-> s.m1, m2 |-> s.m2, L1 |-> s.L1, L2 |-> s.L2,
   g |-> s.g]

\* C16: disabling the conceptual properties sets damping, k1 and k2 to 0
\* and remembers their previous values; enabling them restores damping, k1
\* and k2 to the values they had before disabling, or to the values set
\* through the sliders and zero buttons in between; the toggle never
\* changes speed, m1, m2, L1, L2 and g.
C16_ToggleRoundTrip ==
  [][lastOp' = "toggleConceptual" =>
       /\ PhysicalOf(settings') = PhysicalOf(settings)
       /\ ~conceptualEnabled' =>
            /\ ConceptualOf(settings') = [damping |-> 0, k1 |-> 0, k2 |-> 0]
            /\ activeValues' = ConceptualOf(settings)
       /\ conceptualEnabled' => ConceptualOf(settings') = remembered]_vars

\* a round trip (off, then on again) has restored a stiffness and a damping
\* that were set through the sliders
C16_Witness ==
  /\ lastOp = "toggleConceptual" /\ conceptualEnabled
  /\ settings.k1 = Num(5)
  /\ settings.damping = Num(0 - 1)
  /\ events = 4

====
